---- MODULE Spec2Model ----
(***************************************************************************)
(* A model of wafo/integrate.py: the rule cache _POINTS_AND_WEIGHTS and    *)
(* its lookup _Gaussq._points_and_weights, the root finders behind qrule,  *)
(* the adaptive Gauss quadrature gaussq, quadgr and romberg.               *)
(*                                                                         *)
(* Floating point numbers are modelled as exact rationals extended with    *)
(* +inf, -inf and NaN (IEEE semantics for the special values, no           *)
(* rounding).  Machine epsilon is kept symbolic: an error estimate is a    *)
(* pair (raw, bump) where bump counts the additions of 2*eps.              *)
(***************************************************************************)
EXTENDS Integers, Sequences, FiniteSets, TLC

VARIABLES
    PW,          \* _POINTS_AND_WEIGHTS: name -> list
    qruleRuns,   \* history: successful qrule runs per key (wfun, gn, alpha, beta)
    firstRet,    \* history: the pair the first successful lookup of a key returned
    lk,          \* the last _points_and_weights call and its outcome
    nLookups,    \* history: number of lookups made
    tpc,         \* threads: the statement of _points_and_weights each is at
    tkey,        \* threads: the arguments of each thread's lookup
    tseen,       \* history: len of the entry each lookup found (-1: none)
    tout,        \* threads: how each thread's lookup ended
    overlap,     \* history: a lookup started while another was in progress
    rc,          \* the root-finder call in progress: function and arguments
    rpc,         \* its position: "idle", "newton" (in a Newton loop), "done"
    rsolver,     \* the Newton solver running, and the order it was called with
    rits,        \* Newton iterations performed so far
    rwarn,       \* warnings.warn('too many iterations') was called
    reig,        \* the external eigenvalue root provider (scipy) was called
    rres,        \* what the call returned or raised
    rtests,      \* history: outcome of the stopping test of each iteration
    rfrom,       \* history: the iterates the returned nodes and weights use
    gc,          \* gaussq: the arguments of the call
    gpc,         \* gaussq: "idle", "loop" or "done"
    gi,          \* gaussq: passes of the refinement loop performed (the next i)
    ggn,         \* gaussq: gn, the number of base points of the next pass
    gval,        \* gaussq: val
    gval_old,    \* gaussq: val_old
    gabserr,     \* gaussq: abserr
    gk,          \* gaussq: k, the problems still to be computed again
    gwarn,       \* gaussq: the warning _warn emitted
    gout,        \* gaussq: "none", "ok" (returned val, abserr) or "ValueError"
    gevals,      \* history: calls of the integrand fun made by this call
    glook,       \* history: calls of _points_and_weights made by this call
    glastEval,   \* history: the problems fun was evaluated for on the last pass
    gnan,        \* history: the problems whose estimate was NaN on the last pass
    qc,          \* quadgr: the arguments of the call (a, b, abseps, max_iter)
    qpc,         \* quadgr: "idle", "start" (entering _integrate), "loop", "done"
    qsegs,       \* quadgr: abseps of the _integrate calls still to be made
    qk,          \* quadgr: k of the last bisection pass (0 after the first rule)
    qQ0,         \* quadgr: Q0, the raw panel sums
    qQ1,         \* quadgr: Q1, the first Richardson extrapolation
    qQ2,         \* quadgr: Q2, the second Richardson extrapolation
    qbest,       \* quadgr: the locals Q, err, converged once they are bound
    qwarn,       \* quadgr: the warnings emitted
    qacc,        \* quadgr: Q and err of the _integrate calls finished
    qres,        \* quadgr: what the call returned or raised
    qevals,      \* history: calls of the integrand made by this call
    qwritten,    \* history: the entries <<table, index>> of Q0, Q1, Q2 assigned
    qread,       \* history: the entries richardson and the selection have read
    qpasses,     \* history: rule evaluations (passes) of the current _integrate
    mc,          \* romberg: the arguments of the call (h = b - a, releps, abseps)
    mpc,         \* romberg: "idle", "loop" or "done"
    mh,          \* romberg: h
    mi,          \* romberg: the next i of the loop
    mtable_limit, \* romberg: table_limit, its value and whether it is a float
    mrom,        \* romberg: rom, the two live rows of the extrapolation table
    mtwo,        \* romberg: two
    mone,        \* romberg: one
    mipower,     \* romberg: ipower
    mih,         \* romberg: ih1, ih2, ih4
    mres,        \* romberg: res, once it is bound
    mabserr,     \* romberg: abserr
    mout,        \* romberg: what the call returned or raised
    mhalvings,   \* history: executions of h *= 0.5
    mdea3        \* history: calls of dea3

threadVars == <<tpc, tkey, tseen, tout, overlap>>
tableVars == <<PW, qruleRuns, firstRet, lk, nLookups, threadVars>>
rootVars == <<rc, rpc, rsolver, rits, rwarn, reig, rres, rtests, rfrom>>

gaussVars == <<gc, gpc, gi, ggn, gval, gval_old, gabserr, gk, gwarn, gout,
               gevals, glook, glastEval, gnan>>

quadVars == <<qc, qpc, qsegs, qk, qQ0, qQ1, qQ2, qbest, qwarn, qacc, qres,
              qevals, qpasses, qwritten, qread>>

rombergVars == <<mc, mpc, mh, mi, mtable_limit, mrom, mtwo, mone, mipower,
                 mih, mres, mabserr, mout, mhalvings, mdea3>>

vars == <<tableVars, rootVars, gaussVars, quadVars, rombergVars>>

(***************************************************************************)
(* Bounds of the model.                                                    *)
(***************************************************************************)
MaxLookups == 3

----
(***************************************************************************)
(* '{:g}'.format(x): six significant digits.                               *)
(***************************************************************************)
AbsInt(i) == IF i < 0 THEN -i ELSE i

RECURSIVE NumDigits(_)
NumDigits(i) == IF i < 10 THEN 1 ELSE 1 + NumDigits(i \div 10)

RECURSIVE Pow10(_)
Pow10(e) == IF e = 0 THEN 1 ELSE 10 * Pow10(e - 1)

\* round |i| to the nearest multiple of q (no ties occur for the inputs used)
RoundTo(i, q) == ((i + q \div 2) \div q) * q

(***************************************************************************)
(* Shape parameters are held in units of 1e-7, so that 0.1234567 is the    *)
(* integer 1234567 and -1 is -AlphaUnit.                                   *)
(***************************************************************************)
AlphaUnit == Pow10(7)

FormatG(x) ==
    LET a == AbsInt(x)
        nd == NumDigits(a)
        r == IF nd <= 6 THEN a ELSE RoundTo(a, Pow10(nd - 6))
    IN  IF x < 0 THEN -r ELSE r

\* name = 'wfun{:d}_{:d}_{:g}_{:g}'.format(wfun, gn, alpha, beta)
CacheName(gn, wfun, alpha, beta) == <<wfun, gn, FormatG(alpha), FormatG(beta)>>

----
(***************************************************************************)
(* Floating point values: a rational n/d (d > 0, in lowest terms), an      *)
(* infinity with sign n, or NaN.  Arithmetic on the special values is      *)
(* IEEE 754's, as numpy applies it (division by zero gives inf or nan and  *)
(* raises nothing); comparisons with NaN are false.                        *)
(***************************************************************************)
RECURSIVE Gcd(_, _)
Gcd(a, b) == IF b = 0 THEN a ELSE Gcd(b, a % b)

Sign(i) == IF i > 0 THEN 1 ELSE IF i < 0 THEN -1 ELSE 0

NaN == [t |-> "nan", n |-> 0, d |-> 1]
Inf(sgn) == [t |-> "inf", n |-> sgn, d |-> 1]

\* n/d for integers n and d # 0
Fin(n, d) ==
    LET g == Gcd(AbsInt(n), AbsInt(d))
    IN  [t |-> "fin", n |-> (Sign(d) * n) \div g, d |-> AbsInt(d) \div g]

Int2Num(i) == Fin(i, 1)

IsNan(a) == a.t = "nan"
IsInf(a) == a.t = "inf"
IsFinite(a) == a.t = "fin"

NumNeg(a) == IF IsNan(a) THEN NaN ELSE [a EXCEPT !.n = -a.n]

NumAbs(a) == IF IsNan(a) THEN NaN ELSE [a EXCEPT !.n = AbsInt(a.n)]

NumAdd(a, b) ==
    IF IsNan(a) \/ IsNan(b) THEN NaN
    ELSE IF IsInf(a) /\ IsInf(b) THEN (IF a.n = b.n THEN a ELSE NaN)
    ELSE IF IsInf(a) THEN a
    ELSE IF IsInf(b) THEN b
    ELSE Fin(a.n * b.d + b.n * a.d, a.d * b.d)

NumSub(a, b) == NumAdd(a, NumNeg(b))

NumMul(a, b) ==
    IF IsNan(a) \/ IsNan(b) THEN NaN
    ELSE IF IsInf(a) \/ IsInf(b)
         THEN (IF a.n = 0 \/ b.n = 0 THEN NaN ELSE Inf(Sign(a.n) * Sign(b.n)))
    ELSE Fin(a.n * b.n, a.d * b.d)

NumDiv(a, b) ==
    IF IsNan(a) \/ IsNan(b) THEN NaN
    ELSE IF IsInf(a) THEN (IF IsInf(b) THEN NaN
                           ELSE Inf(a.n * (IF b.n < 0 THEN -1 ELSE 1)))
    ELSE IF IsInf(b) THEN Fin(0, 1)
    ELSE IF b.n = 0 THEN (IF a.n = 0 THEN NaN ELSE Inf(Sign(a.n)))
    ELSE Fin(a.n * b.d, a.d * b.n)

\* a < b (false when either is NaN)
NumLt(a, b) ==
    IF IsNan(a) \/ IsNan(b) THEN FALSE
    ELSE IF IsInf(a) THEN a.n < 0 /\ ~(IsInf(b) /\ b.n < 0)
    ELSE IF IsInf(b) THEN b.n > 0
    ELSE a.n * b.d < b.n * a.d

NumGt(a, b) == NumLt(b, a)

\* Python's max(a, b): b only if it compares greater
PyMax(a, b) == IF NumGt(b, a) THEN b ELSE a

\* Python's min(a, b): b only if it compares less
PyMin(a, b) == IF NumLt(b, a) THEN b ELSE a

\* np.maximum(a, b): NaN if either is NaN
NpMaximum(a, b) == IF IsNan(a) \/ IsNan(b) THEN NaN ELSE PyMax(a, b)

----
(***************************************************************************)
(* The parameter checks of j_roots and la_roots, and qrule's result.       *)
(***************************************************************************)
\* mutant: the bound of the assertion taken as inclusive
JRootsAssertOkLe(alpha, beta) == (-AlphaUnit <= alpha) /\ (-AlphaUnit <= beta)

JRootsAssertOk(alpha, beta) == (-AlphaUnit < alpha) /\ (-AlphaUnit < beta)

LaRootsAssertOk(alpha) == -AlphaUnit < alpha

\* the (nodes, weights) tuple qrule returns; the rule is identified by the
\* arguments it was computed for
QruleResult(n, wfun, alpha, beta) ==
    LET al == IF wfun \in {3, 4} THEN alpha ELSE 0
        be == IF wfun = 4 THEN beta ELSE 0
    IN  << [part |-> "x", n |-> n, wfun |-> wfun, alpha |-> al, beta |-> be],
           [part |-> "w", n |-> n, wfun |-> wfun, alpha |-> al, beta |-> be] >>

----
(***************************************************************************)
(* The root finders: h_roots, j_roots, la_roots, p_roots, q5..q9_roots and *)
(* qrule.  Nodes are symbolic: the half roots a Newton solver finds are    *)
(* the integers m, m-1, .., 1 (largest first), the central root of an odd  *)
(* rule is forced to 0 by _expand_roots, and negation is integer negation. *)
(* Weights are identified by their index.                                  *)
(***************************************************************************)
HMaxIter == 10
JMaxIter == 10
LaMaxIter == 10
P1MaxIter == 100
PNewtonPasses == 2

MaxN == 4

RootN == 1..MaxN
RootWfun == 0..10
RootAlpha == {-2 * AlphaUnit, -AlphaUnit, -(AlphaUnit \div 2), 0}
RootBeta == {-AlphaUnit, 0}
RootMethod == {"newton", "newton1", "eigenvalue"}

\* method.startswith('n')
StartsWithN(method) == method \in {"newton", "newton1"}
\* method.endswith('1')
EndsWith1(method) == method = "newton1"

\* m = int(np.fix((n + 1) / 2))
HalfCount(n) == (n + 1) \div 2

NegSeq(x) == [i \in 1..Len(x) |-> -x[i]]

\* x[start::-1] for a Python index start (0-based, negative counts from the end)
PySliceDown(x, start) ==
    LET s0 == IF start < 0 THEN start + Len(x) ELSE start
        s1 == IF s0 >= Len(x) THEN Len(x) - 1 ELSE s0
    IN  IF s1 < 0 THEN <<>> ELSE [i \in 1..(s1 + 1) |-> x[s1 + 2 - i]]

\* _expand_roots(x, w, n, m)
ExpandRoots(x, w, n, m) ==
    LET x1 == IF (m + m) > n THEN [x EXCEPT ![m] = 0] ELSE x
        m1 == IF ~((m + m) = n) THEN m - 1 ELSE m
    IN  [x |-> x1 \o NegSeq(PySliceDown(x1, m1 - 1)),
         w |-> w \o PySliceDown(w, m1 - 1)]

IndexSeq(len) == [i \in 1..len |-> i]

\* what each Newton solver returns for order n, after its loop
SolverResult(solver, n) ==
    LET m == HalfCount(n)
    IN  CASE solver = "h"  -> ExpandRoots([i \in 1..m |-> m + 1 - i], IndexSeq(m), n, m)
          [] solver = "p"  -> ExpandRoots([i \in 1..m |-> -(m + 1 - i)], IndexSeq(m), n, m)
          [] solver = "p1" -> ExpandRoots([i \in 1..m |-> -(m + 1 - i)], IndexSeq(m), n, m)
          [] solver = "j"  -> [x |-> [i \in 1..n |-> n + 1 - i], w |-> IndexSeq(n)]
          [] solver = "la" -> [x |-> [i \in 1..n |-> i], w |-> IndexSeq(n)]

\* q5_roots, q6_roots: cos of an angle rising through pi/2; q7_roots: cos^2
ClosedResult(wfun, n) ==
    IF wfun \in {5, 6}
    THEN [x |-> [j \in 1..n |-> n + 1 - 2 * j], w |-> IndexSeq(n)]
    ELSE [x |-> [j \in 1..n |-> n + 1 - j], w |-> IndexSeq(n)]

\* ort.h_roots, ort.j_roots, ort.la_roots, ort.p_roots (scipy): n nodes
EigenResult(n) == [x |-> [j \in 1..n |-> 2 * j - n - 1], w |-> IndexSeq(n)]

\* q8_roots, q9_roots: the non-negative (positive) half of a Legendre rule
SelectIdx(x, strict) ==
    LET Keep(v) == IF strict THEN 0 < v ELSE 0 <= v
        RECURSIVE Sel(_)
        Sel(i) == IF i > Len(x) THEN <<>>
                  ELSE (IF Keep(x[i]) THEN <<i>> ELSE <<>>) \o Sel(i + 1)
    IN  Sel(1)

Q8Post(r) ==
    LET k == SelectIdx(r.x, FALSE)
    IN  [x |-> [i \in 1..Len(k) |-> r.x[k[i]]], w |-> [i \in 1..Len(k) |-> r.w[k[i]]]]

Q9Post(r) ==
    LET k == SelectIdx(r.x, TRUE)
    IN  [x |-> [i \in 1..Len(k) |-> r.x[k[i]]], w |-> [i \in 1..Len(k) |-> r.w[k[i]]]]

\* The entry of a root function, up to the point where a solver starts:
\* "ValueError", "eigen" (the scipy provider), "closed" (no iteration), or
\* "newton" with the solver and the order it is called with.
Started(solver, n) == [entry |-> "newton", solver |-> solver, n |-> n]
NotStarted(entry) == [entry |-> entry, solver |-> "none", n |-> 0]

HRoots(n, method) ==
    IF ~StartsWithN(method) THEN NotStarted("eigen") ELSE Started("h", n)

JRoots(n, alpha, beta, method) ==
    IF ~JRootsAssertOk(alpha, beta) THEN NotStarted("ValueError")
    ELSE IF ~StartsWithN(method) THEN NotStarted("eigen")
    ELSE Started("j", n)

LaRoots(n, alpha, method) ==
    IF ~LaRootsAssertOk(alpha) THEN NotStarted("ValueError")
    ELSE IF ~StartsWithN(method) THEN NotStarted("eigen")
    ELSE Started("la", n)

PRoots(n, method) ==
    IF ~StartsWithN(method) THEN NotStarted("eigen")
    ELSE IF EndsWith1(method) THEN Started("p1", n)
    ELSE Started("p", n)

WfunKnown(wfun) == 0 < wfun /\ wfun < 10

Qrule(n, wfun, alpha, beta) ==
    IF wfun = 3 THEN LaRoots(n, alpha, "newton")
    ELSE IF wfun = 4 THEN JRoots(n, alpha, beta, "newton")
    ELSE IF ~WfunKnown(wfun) THEN NotStarted("ValueError")
    ELSE CASE wfun = 1 -> PRoots(n, "newton")
           [] wfun = 2 -> HRoots(n, "newton")
           [] wfun \in {5, 6, 7} -> NotStarted("closed")
           [] wfun = 8 -> PRoots(2 * n, "newton")
           [] wfun = 9 -> PRoots(2 * n + 1, "newton")

QruleRaises(n, wfun, alpha, beta) == Qrule(n, wfun, alpha, beta).entry = "ValueError"

Dispatch(fn, n, wfun, alpha, beta, method) ==
    CASE fn = "qrule"    -> Qrule(n, wfun, alpha, beta)
      [] fn = "h_roots"  -> HRoots(n, method)
      [] fn = "j_roots"  -> JRoots(n, alpha, beta, method)
      [] fn = "la_roots" -> LaRoots(n, alpha, method)
      [] fn = "p_roots"  -> PRoots(n, method)

SolverCap(solver) ==
    CASE solver = "h" -> HMaxIter
      [] solver = "j" -> JMaxIter
      [] solver = "la" -> LaMaxIter
      [] solver = "p1" -> P1MaxIter
      [] solver = "p" -> PNewtonPasses

\* the rule a finished call returns
Returned(call, solver, sn) ==
    LET r == SolverResult(solver, sn)
    IN  IF call.fn = "qrule" /\ call.wfun = 8 THEN Q8Post(r)
        ELSE IF call.fn = "qrule" /\ call.wfun = 9 THEN Q9Post(r)
        ELSE r

NoCall == [fn |-> "none", n |-> 0, wfun |-> 0, alpha |-> 0, beta |-> 0,
           method |-> "none"]
NoResult == [outcome |-> "none", x |-> <<>>, w |-> <<>>]

\* Iterate 0 is the starting guess, iterate i the value of z after i updates
\* z = z - dz.  The nodes are z as the loop leaves it.
NodesAt(its) == its

DerivativeAtLast(its) == its

\* pp (Lp in the Legendre solver) is evaluated before z is updated, and the
\* weights are formed from it after the loop: 2 / pp ** 2 and the like.
\* In _p_roots_newton1 a root that left the active set keeps the Lp of its
\* own last update.
DerivativeAt(its) == its - 1

NoIterate == [x |-> 0, w |-> 0, shifted |-> FALSE]

InitRoots ==
    /\ rc = NoCall
    /\ rpc = "idle"
    /\ rsolver = NotStarted("none")
    /\ rits = 0
    /\ rwarn = FALSE
    /\ reig = FALSE
    /\ rres = NoResult
    /\ rtests = <<>>
    /\ rfrom = NoIterate

\* A root function is called: its checks and dispatch, up to the first
\* Newton iteration; closed forms and the scipy provider return at once.
RootCall(fn, n, wfun, alpha, beta, method) ==
    LET call == [fn |-> fn, n |-> n, wfun |-> wfun, alpha |-> alpha,
                 beta |-> beta, method |-> method]
        d == Dispatch(fn, n, wfun, alpha, beta, method)
    IN  /\ rpc = "idle"
        /\ gpc = "idle"
        /\ qpc = "idle"
        /\ rc' = call
        /\ rsolver' = d
        /\ rits' = 0
        /\ rwarn' = FALSE
        /\ reig' = (d.entry = "eigen")
        /\ rtests' = <<>>
        /\ rfrom' = NoIterate
        /\ rpc' = IF d.entry = "newton" THEN "newton" ELSE "done"
        /\ rres' = CASE d.entry = "ValueError" ->
                          [outcome |-> "ValueError", x |-> <<>>, w |-> <<>>]
                     [] d.entry = "eigen" ->
                          [outcome |-> "ok"] @@ EigenResult(n)
                     [] d.entry = "closed" ->
                          [outcome |-> "ok"] @@ ClosedResult(wfun, n)
                     [] d.entry = "newton" -> NoResult
        /\ UNCHANGED <<tableVars, gaussVars, quadVars, rombergVars>>

\* One pass of a Newton loop; `small` is the outcome of the stopping test,
\* not any(abs(dz) > releps) (the Davis-Rabinowitz solver makes two passes,
\* untested).
NewtonIter(small) ==
    /\ rpc = "newton"
    /\ LET its == rits + 1
           tested == rsolver.solver # "p"
           stop == tested /\ small
           last == its = SolverCap(rsolver.solver)
       IN  /\ rits' = its
           /\ rwarn' = (tested /\ ~stop /\ last)
           /\ rtests' = IF tested THEN Append(rtests, small) ELSE rtests
           /\ rfrom' = [x |-> NodesAt(its), w |-> DerivativeAt(its),
                        shifted |-> ~tested]
           /\ IF stop \/ last
              THEN /\ rpc' = "done"
                   /\ rres' = [outcome |-> "ok"] @@ Returned(rc, rsolver.solver, rsolver.n)
              ELSE /\ rpc' = "newton"
                   /\ rres' = rres
    /\ UNCHANGED <<rc, rsolver, reig>>
    /\ UNCHANGED <<tableVars, gaussVars, quadVars, rombergVars>>

RootsNext ==
    \/ \E n \in RootN, wfun \in RootWfun, alpha \in RootAlpha, beta \in RootBeta :
          RootCall("qrule", n, wfun, alpha, beta, "newton")
    \/ \E n \in RootN, method \in RootMethod :
          RootCall("h_roots", n, 2, 0, 0, method)
    \/ \E n \in RootN, alpha \in RootAlpha, beta \in RootBeta, method \in RootMethod :
          RootCall("j_roots", n, 4, alpha, beta, method)
    \/ \E n \in RootN, alpha \in RootAlpha, method \in RootMethod :
          RootCall("la_roots", n, 3, alpha, 0, method)
    \/ \E n \in RootN, method \in RootMethod :
          RootCall("p_roots", n, 1, 0, 0, method)
    \/ \E small \in BOOLEAN : NewtonIter(small)

SymmetricWfun == {1, 2, 5, 6}

(***************************************************************************)
(* C5: a rule of order n >= 1 returned for a symmetric weight function     *)
(* (Legendre 1, Hermite 2, Chebyshev 5 and 6) has exactly n nodes and n    *)
(* weights, and for n = 1 its single node is the domain centre 0.          *)
(***************************************************************************)
C5_RuleHasNNodes ==
    (rpc = "done" /\ rres.outcome = "ok" /\ rc.wfun \in SymmetricWfun) =>
        /\ Len(rres.x) = rc.n
        /\ Len(rres.w) = rc.n
        /\ (rc.n = 1 => rres.x = <<0>>)

\* the same for the orders above 1, where the code does return n nodes
C5_RuleHasNNodesAbove1 ==
    (rpc = "done" /\ rres.outcome = "ok" /\ rc.wfun \in SymmetricWfun /\ rc.n > 1) =>
        /\ Len(rres.x) = rc.n
        /\ Len(rres.w) = rc.n

BadJacobi ==
    /\ rc.fn = "j_roots" \/ (rc.fn = "qrule" /\ rc.wfun = 4)
    /\ rc.alpha <= -AlphaUnit \/ rc.beta <= -AlphaUnit

BadLaguerre ==
    /\ rc.fn = "la_roots" \/ (rc.fn = "qrule" /\ rc.wfun = 3)
    /\ rc.alpha <= -AlphaUnit

(***************************************************************************)
(* C6: a Jacobi rule with alpha <= -1 or beta <= -1, or a Laguerre rule    *)
(* with alpha <= -1, requested through j_roots, la_roots or qrule, ends in *)
(* ValueError with no Newton iteration performed and without the           *)
(* eigenvalue provider being called, whichever method was asked for.       *)
(***************************************************************************)
C6_BadShapeRaisesFirst ==
    (BadJacobi \/ BadLaguerre) =>
        /\ rpc = "done"
        /\ rres.outcome = "ValueError"
        /\ rits = 0
        /\ ~reig

\* j_roots(n, -1, 0, 'eigenvalue') has raised
C6_Witness ==
    /\ BadJacobi
    /\ rc.fn = "j_roots"
    /\ rc.alpha = -AlphaUnit
    /\ rc.method = "eigenvalue"
    /\ rres.outcome = "ValueError"

\* the solvers whose loop has a stopping test and a warning
TestedSolvers == {"h", "j", "la", "p1"}

InTestedSolver == rsolver.entry = "newton" /\ rsolver.solver \in TestedSolvers

NoTestPassed(upto) == \A i \in 1..upto : ~rtests[i]

\* The loop of a tested solver: never more than the cap of iterations, none
\* after one that passed the test, the warning exactly when the cap was
\* used up with no test passed, and a result in both cases, its nodes the
\* iterate after the last update and its weights formed from the derivative
\* at the iterate `lag` updates earlier.
NewtonContract(lag) ==
    InTestedSolver =>
        LET cap == IF rsolver.solver = "p1" THEN 100 ELSE 10
        IN  /\ rits <= cap
            /\ Len(rtests) = rits
            /\ NoTestPassed(rits - 1)
            /\ rpc = "newton" => (rits < cap /\ NoTestPassed(rits))
            /\ rpc = "done" =>
                  /\ rits >= 1
                  /\ rtests[rits] \/ rits = cap
                  /\ rwarn <=> (rits = cap /\ NoTestPassed(rits))
                  /\ rres.outcome = "ok"
                  /\ rfrom.x = rits
                  /\ ~rfrom.shifted
                  /\ rfrom.w = rits - lag

(***************************************************************************)
(* C19 as stated: each Newton solver (Hermite, Jacobi, Laguerre with cap   *)
(* 10, the alternate Legendre variant with cap 100) makes at most its cap  *)
(* of iterations, stops at the first iteration that passes the tolerance   *)
(* test, warns exactly when the cap is used up with no iteration having    *)
(* passed, and in both cases returns nodes and weights computed from the   *)
(* last iterate.                                                           *)
(***************************************************************************)
C19_WeightsFromLastIterate == NewtonContract(0)

(***************************************************************************)
(* C19 amended: the same caps, stop and warning; the returned nodes are    *)
(* the last iterate, and the returned weights are formed from the          *)
(* derivative evaluated in the final iteration, that is at the iterate     *)
(* before the last update.                                                 *)
(***************************************************************************)
C19_WeightsFromDerivativeBeforeUpdate == NewtonContract(1)

\* the Hermite solver used up its cap and warned; its weights use iterate 9
C19_Witness ==
    /\ rpc = "done"
    /\ rsolver.entry = "newton"
    /\ rsolver.solver = "h"
    /\ rits = HMaxIter
    /\ rwarn
    /\ rfrom.x = HMaxIter
    /\ rfrom.w = HMaxIter - 1

\* the alternate Legendre solver stopped at a passing test before its cap
C19_StoppedEarly ==
    /\ rpc = "done"
    /\ rsolver.entry = "newton"
    /\ rsolver.solver = "p1"
    /\ rits > HMaxIter
    /\ rits < P1MaxIter
    /\ ~rwarn

----
(***************************************************************************)
(* _Gaussq._points_and_weights                                             *)
(***************************************************************************)
TableGn == {2, 4}
TableWfun == {1, 4}
TableAlpha == {-AlphaUnit, 1234567, 1234568}
TableBeta == {0}

TableKeys == TableGn \X TableWfun \X TableAlpha \X TableBeta

\* _POINTS_AND_WEIGHTS.setdefault(name, [])
SetDefault(d, name) == IF name \in DOMAIN d THEN d ELSE d @@ (name :> <<>>)

\* mutant: the emptiness test dropped, the rule is computed on every call
NeedsComputeAlways(x_and_w) == TRUE

\* if len(x_and_w) == 0: the rule has to be computed
NeedsCompute(x_and_w) == Len(x_and_w) = 0

\* The whole call: the dictionary after it, the outcome, the pair returned
\* and whether qrule ran to completion.
PointsAndWeights(d, gn, wfun, alpha, beta) ==
    LET name == CacheName(gn, wfun, alpha, beta)
        d1 == SetDefault(d, name)
        compute == NeedsCompute(d1[name])
    IN  IF compute /\ QruleRaises(gn, wfun, alpha, beta)
        THEN [dict |-> d1, outcome |-> "ValueError", ret |-> <<>>, computed |-> FALSE]
        ELSE LET d2 == IF compute
                       THEN [d1 EXCEPT ![name] = @ \o QruleResult(gn, wfun, alpha, beta)]
                       ELSE d1
             IN  IF Len(d2[name]) = 2       \* xn, w = x_and_w
                 THEN [dict |-> d2, outcome |-> "ok", ret |-> d2[name],
                       computed |-> compute]
                 ELSE [dict |-> d2, outcome |-> "ValueError", ret |-> <<>>,
                       computed |-> compute]

\* the threads that call gaussq, and what a lookup of theirs has not yet
\* produced
Threads == {1, 2}
NoOutcome == [outcome |-> "none", ret |-> <<>>]

NoLookup == [key |-> <<>>, outcome |-> "none", ret |-> <<>>, computed |-> FALSE,
             prior |-> FALSE, fresh |-> FALSE]

InitTable ==
    /\ PW = <<>>
    /\ qruleRuns = [key \in TableKeys |-> 0]
    /\ firstRet = [key \in TableKeys |-> <<>>]
    /\ lk = NoLookup
    /\ nLookups = 0
    /\ tpc = [t \in Threads |-> "idle"]
    /\ tkey = [t \in Threads |-> <<>>]
    /\ tseen = [t \in Threads |-> -1]
    /\ tout = [t \in Threads |-> NoOutcome]
    /\ overlap = FALSE

Lookup(gn, wfun, alpha, beta) ==
    LET key == <<gn, wfun, alpha, beta>>
        name == CacheName(gn, wfun, alpha, beta)
        r == PointsAndWeights(PW, gn, wfun, alpha, beta)
    IN  /\ nLookups < MaxLookups
        /\ rpc = "idle"
        /\ gpc = "idle"
        /\ nLookups' = nLookups + 1
        /\ PW' = r.dict
        /\ qruleRuns' = IF r.computed THEN [qruleRuns EXCEPT ![key] = @ + 1]
                        ELSE qruleRuns
        /\ firstRet' = IF r.outcome = "ok" /\ firstRet[key] = <<>>
                       THEN [firstRet EXCEPT ![key] = r.ret]
                       ELSE firstRet
        /\ lk' = [key |-> key, outcome |-> r.outcome, ret |-> r.ret,
                  computed |-> r.computed,
                  prior |-> firstRet[key] # <<>>,
                  fresh |-> name \notin DOMAIN PW]
        /\ UNCHANGED <<threadVars, rootVars, gaussVars, quadVars, rombergVars>>

TableNext ==
    \E gn \in TableGn, wfun \in TableWfun, alpha \in TableAlpha, beta \in TableBeta :
        Lookup(gn, wfun, alpha, beta)

(***************************************************************************)
(* _points_and_weights called from several threads.  The interpreter runs  *)
(* one bytecode at a time, so dict.setdefault, len, list.extend and the    *)
(* unpacking are each one step, and a thread switch can fall between any   *)
(* two of them; x_and_w is a reference to the list held by the dictionary. *)
(* Jacobi shapes: -1 is refused by j_roots, -0.9999999 is accepted and     *)
(* formats to the same name as -1.                                         *)
(***************************************************************************)
ThreadAlpha == {-AlphaUnit, 1 - AlphaUnit, 1234567}
ThreadKeys == {<<2, 4, alpha, 0>> : alpha \in ThreadAlpha}

NameOf(key) == CacheName(key[1], key[2], key[3], key[4])

\* a thread enters _points_and_weights and formats the name
ThreadCall(t, key) ==
    /\ tpc[t] = "idle"
    /\ nLookups < MaxLookups
    /\ nLookups' = nLookups + 1
    /\ tpc' = [tpc EXCEPT ![t] = "setdefault"]
    /\ tkey' = [tkey EXCEPT ![t] = key]
    /\ tseen' = [tseen EXCEPT ![t] = -1]
    /\ tout' = [tout EXCEPT ![t] = NoOutcome]
    /\ overlap' = (overlap \/ \E u \in Threads \ {t} : tpc[u] # "idle")
    /\ UNCHANGED <<PW, qruleRuns, firstRet, lk>>
    /\ UNCHANGED <<rootVars, gaussVars, quadVars, rombergVars>>

\* x_and_w = _POINTS_AND_WEIGHTS.setdefault(name, [])
ThreadSetDefault(t) ==
    /\ tpc[t] = "setdefault"
    /\ LET name == NameOf(tkey[t])
       IN  /\ tseen' = [tseen EXCEPT ![t] = IF name \in DOMAIN PW
                                            THEN Len(PW[name]) ELSE -1]
           /\ PW' = SetDefault(PW, name)
    /\ tpc' = [tpc EXCEPT ![t] = "test"]
    /\ UNCHANGED <<qruleRuns, firstRet, lk, nLookups, tkey, tout, overlap>>
    /\ UNCHANGED <<rootVars, gaussVars, quadVars, rombergVars>>

\* if len(x_and_w) == 0:
ThreadTest(t) ==
    /\ tpc[t] = "test"
    /\ tpc' = [tpc EXCEPT ![t] = IF NeedsCompute(PW[NameOf(tkey[t])])
                                 THEN "extend" ELSE "unpack"]
    /\ UNCHANGED <<PW, qruleRuns, firstRet, lk, nLookups, tkey, tseen, tout,
                   overlap>>
    /\ UNCHANGED <<rootVars, gaussVars, quadVars, rombergVars>>

\* x_and_w.extend(qrule(gn, wfun, alpha, beta)): qrule returns or raises,
\* then the list is extended
ThreadExtend(t) ==
    /\ tpc[t] = "extend"
    /\ LET key == tkey[t]
           name == NameOf(key)
       IN  IF QruleRaises(key[1], key[2], key[3], key[4])
           THEN /\ tpc' = [tpc EXCEPT ![t] = "idle"]
                /\ tout' = [tout EXCEPT ![t] = [outcome |-> "ValueError",
                                                ret |-> <<>>]]
                /\ PW' = PW
           ELSE /\ tpc' = [tpc EXCEPT ![t] = "unpack"]
                /\ tout' = tout
                /\ PW' = [PW EXCEPT ![name] =
                             @ \o QruleResult(key[1], key[2], key[3], key[4])]
    /\ UNCHANGED <<qruleRuns, firstRet, lk, nLookups, tkey, tseen, overlap>>
    /\ UNCHANGED <<rootVars, gaussVars, quadVars, rombergVars>>

\* xn, w = x_and_w; return xn, w
ThreadUnpack(t) ==
    /\ tpc[t] = "unpack"
    /\ LET x_and_w == PW[NameOf(tkey[t])]
       IN  tout' = [tout EXCEPT ![t] =
                       IF Len(x_and_w) = 2
                       THEN [outcome |-> "ok", ret |-> x_and_w]
                       ELSE [outcome |-> "ValueError", ret |-> <<>>]]
    /\ tpc' = [tpc EXCEPT ![t] = "idle"]
    /\ UNCHANGED <<PW, qruleRuns, firstRet, lk, nLookups, tkey, tseen, overlap>>
    /\ UNCHANGED <<rootVars, gaussVars, quadVars, rombergVars>>

ThreadNext ==
    \E t \in Threads :
        \/ \E key \in ThreadKeys : ThreadCall(t, key)
        \/ ThreadSetDefault(t)
        \/ ThreadTest(t)
        \/ ThreadExtend(t)
        \/ ThreadUnpack(t)

----
(***************************************************************************)
(* _Gaussq.__call__ (gaussq).  A batch of nk problems, numbered 1..nk; the *)
(* weighted sums np.sum(w * y, axis=1) * dx[k] of a pass are drawn from    *)
(* GaussVals for the problems in k.                                        *)
(***************************************************************************)
MaxIter == 4

GaussVals == {Int2Num(0), Int2Num(2), NaN, Inf(1)}
GaussNk == {1, 2}
GaussRelEps == {Int2Num(0), Int2Num(1)}
GaussAbsEps == {Int2Num(0), Int2Num(1)}
\* (wfun, alpha): Legendre, Laguerre with a valid and an invalid alpha, and
\* two weight-function ids outside 1..9
GaussShape == {<<1, 0>>, <<3, 0>>, <<3, -AlphaUnit>>, <<0, 0>>, <<10, 0>>}

\* mutant: an unknown wfun falls through with dx = jacob
GetDxRaisesNever(wfun) == FALSE

\* _get_dx: the else branch raises ValueError('unknown option')
GetDxRaises(wfun) == ~(wfun \in {1, 2, 3, 7} \/ wfun \in {4, 5, 6, 8, 9})

\* np.maximum(abs(releps * val), abseps)
Tolerance(releps, abseps, val) == NpMaximum(NumAbs(NumMul(releps, val)), abseps)

\* mutant: the loop is left as soon as any problem meets its tolerance
StillActiveUnlessAny(abserr, val, releps, abseps, nk) ==
    LET over == {j \in 1..nk : NumGt(abserr[j], Tolerance(releps, abseps, val[j]))}
    IN  IF over = 1..nk THEN over ELSE {}

\* mutant: the assignment writes the whole array, 0 where new has no value
WholeAssign(old, k, new) ==
    [j \in DOMAIN old |-> IF j \in DOMAIN new THEN new[j] ELSE Int2Num(0)]

\* old[k] = new: the elements outside k keep their value
MaskedAssign(old, k, new) ==
    [j \in DOMAIN old |-> IF j \in k THEN new[j] ELSE old[j]]

\* k, = np.where(abserr > np.maximum(abs(releps * val), abseps))
StillActive(abserr, val, releps, abseps, nk) ==
    {j \in 1..nk : NumGt(abserr[j], Tolerance(releps, abseps, val[j]))}

\* mutant: a NaN estimate is kept
NanKept(val, val_old) == val

\* val[np.isnan(val)] = val_old[np.isnan(val)]
NanToOld(val, val_old) ==
    [j \in DOMAIN val |-> IF IsNan(val[j]) THEN val_old[j] ELSE val[j]]

NoWarning == [kind |-> "none", n |-> 0]

\* mutant: the count is left out of the text
WarnWithoutCount(k, total) ==
    [kind |-> "Integral did not converge--singularity likely!", n |-> 0]

\* _warn(k, a_shape): the text names the count only when 1 < len(k) < total
Warn(k, total) ==
    LET nk == Cardinality(k)
    IN  IF nk > 1
        THEN IF nk = total
             THEN [kind |-> "All integrals did not converge--singularities likely!",
                   n |-> 0]
             ELSE [kind |-> "%d integrals did not converge--singularities likely!",
                   n |-> nk]
        ELSE [kind |-> "Integral did not converge--singularity likely!", n |-> 0]

\* if 1 < i
Tested(i) == 1 < i

\* mutant: the loop runs one pass more than max_iter
LoopExhaustedLate(i, max_iter) == i = max_iter + 1

\* for i in range(max_iter): no pass is left after i passes
LoopExhausted(i, max_iter) == i >= max_iter

NoGaussCall == [wfun |-> 0, alpha |-> 0, beta |-> 0, releps |-> Int2Num(0),
                abseps |-> Int2Num(0), max_iter |-> 0, nk |-> 0]

InitGauss ==
    /\ gc = NoGaussCall
    /\ gpc = "idle"
    /\ gi = 0
    /\ ggn = 2
    /\ gval = <<>>
    /\ gval_old = <<>>
    /\ gabserr = <<>>
    /\ gk = {}
    /\ gwarn = NoWarning
    /\ gout = "none"
    /\ gevals = 0
    /\ glook = 0
    /\ glastEval = {}
    /\ gnan = {}

\* gaussq(fun, a, b, releps, abseps, alpha, beta, wfun, max_iter=...) up to
\* the refinement loop: _initialize, _get_jacob, _get_dx, the dtype probe
\* fun((A+B)*0.5) and the zeros/ones arrays; with max_iter = 0 the loop's
\* else branch runs at once.
GaussCall(wfun, alpha, beta, releps, abseps, max_iter, nk) ==
    /\ gpc = "idle"
    /\ rpc = "idle"
    /\ qpc = "idle"
    /\ gc' = [wfun |-> wfun, alpha |-> alpha, beta |-> beta, releps |-> releps,
              abseps |-> abseps, max_iter |-> max_iter, nk |-> nk]
    /\ IF GetDxRaises(wfun)
       THEN /\ gpc' = "done"
            /\ gout' = "ValueError"
            /\ UNCHANGED <<gi, ggn, gval, gval_old, gabserr, gk, gwarn, gevals>>
       ELSE /\ gevals' = 1
            /\ gi' = 0
            /\ ggn' = 2
            /\ gval' = [j \in 1..nk |-> Int2Num(0)]
            /\ gval_old' = [j \in 1..nk |-> Int2Num(1)]
            /\ gabserr' = [j \in 1..nk |-> Int2Num(0)]
            /\ gk' = 1..nk
            /\ IF LoopExhausted(0, max_iter)
               THEN /\ gpc' = "done"
                    /\ gout' = "ok"
                    /\ gwarn' = Warn(1..nk, nk)
               ELSE /\ gpc' = "loop"
                    /\ gout' = "none"
                    /\ gwarn' = NoWarning
    /\ UNCHANGED <<glook, glastEval, gnan>>
    /\ UNCHANGED <<tableVars, rootVars, quadVars, rombergVars>>

\* One pass of the loop, lines 1024-1040, with the loop's exit: y[j] is the
\* weighted sum computed for problem j of k.
GaussPass(y) ==
    /\ gpc = "loop"
    /\ LET nk == gc.nk
           r == PointsAndWeights(PW, ggn, gc.wfun, gc.alpha, gc.beta)
           val1 == MaskedAssign(gval, gk, y)
           nans == {j \in 1..nk : IsNan(val1[j])}
           val2 == NanToOld(val1, gval_old)
           tested == Tested(gi)
           abserr1 == IF tested
                      THEN MaskedAssign(gabserr, gk,
                               [j \in gk |-> NumAbs(NumSub(gval_old[j], val2[j]))])
                      ELSE gabserr
           k1 == IF tested
                 THEN StillActive(abserr1, val2, gc.releps, gc.abseps, nk)
                 ELSE gk
           break == tested /\ k1 = {}
           exhausted == ~break /\ LoopExhausted(gi + 1, gc.max_iter)
       IN  /\ PW' = r.dict
           /\ glook' = glook + 1
           /\ IF r.outcome # "ok"
              THEN /\ gpc' = "done"
                   /\ gout' = "ValueError"
                   /\ UNCHANGED <<gi, ggn, gval, gval_old, gabserr, gk, gwarn,
                                  gevals, glastEval, gnan>>
              ELSE /\ gevals' = gevals + 1
                   /\ glastEval' = gk
                   /\ gnan' = nans
                   /\ gi' = gi + 1
                   /\ gval' = val2
                   /\ gabserr' = abserr1
                   /\ gk' = k1
                   /\ gval_old' = IF break THEN gval_old
                                  ELSE MaskedAssign(gval_old, k1, val2)
                   /\ ggn' = IF break THEN ggn ELSE 2 * ggn
                   /\ gpc' = IF break \/ exhausted THEN "done" ELSE "loop"
                   /\ gout' = IF break \/ exhausted THEN "ok" ELSE "none"
                   /\ gwarn' = IF exhausted THEN Warn(k1, nk) ELSE NoWarning
    /\ UNCHANGED gc
    /\ UNCHANGED <<qruleRuns, firstRet, lk, nLookups, threadVars>>
    /\ UNCHANGED <<rootVars, quadVars, rombergVars>>

GaussNext ==
    \/ \E shape \in GaussShape, releps \in GaussRelEps, abseps \in GaussAbsEps,
          max_iter \in 0..MaxIter, nk \in GaussNk :
            GaussCall(shape[1], shape[2], 0, releps, abseps, max_iter, nk)
    \/ \E y \in [gk -> GaussVals] : GaussPass(y)

\* a batch of three problems with finite sums, Legendre weight
GaussBatchNk == {3}
GaussBatchVals == {Int2Num(0), Int2Num(2)}

GaussBatchNext ==
    \/ \E max_iter \in 0..MaxIter, nk \in GaussBatchNk :
            GaussCall(1, 0, 0, Int2Num(0), Int2Num(1), max_iter, nk)
    \/ \E y \in [gk -> GaussBatchVals] : GaussPass(y)

----
(***************************************************************************)
(* richardson and _Quadgr (quadgr).  The arrays Q0, Q1, Q2 are sequences   *)
(* of length max_iter; the code's Q[k] is the model's Q[k + 1].  The sums  *)
(* hh * np.sum(wq * fun(x)) of the passes are drawn from QuadVals.  An     *)
(* error estimate is (raw, bump): raw + bump * 2 * eps.                    *)
(***************************************************************************)
MaxQIter == 7
\* the cap on max_iter for (-inf, inf), which is integrated as two halves
MaxQIter2 == 3

RichardsonFloor == Fin(7, 100)

QuadVals == {Int2Num(0), Int2Num(2), Int2Num(3), Inf(1)}
QuadAbsEps == {Fin(1, 2)}
QuadLimits == {<<Int2Num(0), Int2Num(1)>>, <<Int2Num(1), Int2Num(0)>>,
               <<Int2Num(0), Int2Num(0)>>, <<Inf(1), Inf(1)>>,
               <<Int2Num(0), Inf(1)>>, <<Inf(-1), Int2Num(0)>>,
               <<Inf(-1), Inf(1)>>, <<NaN, Inf(1)>>, <<NaN, NaN>>}

At(Q, k) == Q[k + 1]

\* richardson(Q, k)
Richardson(Q, k) ==
    LET c0 == NumSub(NumDiv(NumSub(At(Q, k - 1), At(Q, k - 2)),
                            NumSub(At(Q, k), At(Q, k - 1))),
                     Int2Num(1))
        c == PyMax(c0, RichardsonFloor)
    IN  NumAdd(At(Q, k), NumDiv(NumSub(At(Q, k), At(Q, k - 1)), c))

\* mutant: the raw panel sums are always taken
ArgMinFirst(errors) == 1

\* errors.argmin() (1-based): the first NaN if there is one, else the first
\* smallest element
ArgMin(errors) ==
    LET idx == 1..Len(errors)
    IN  IF \E i \in idx : IsNan(errors[i])
        THEN CHOOSE i \in idx : IsNan(errors[i]) /\ \A h \in 1..(i - 1) : ~IsNan(errors[h])
        ELSE CHOOSE i \in idx :
                 /\ \A h \in idx : ~NumLt(errors[h], errors[i])
                 /\ \A h \in 1..(i - 1) : NumLt(errors[i], errors[h])

\* the entries Q[k], Q[k - 1], Q[k - 2] that richardson(Q, k) reads, Q being
\* table 0 (Q0) or 1 (Q1)
RichardsonReads(table, k) == {<<table, k>>, <<table, k - 1>>, <<table, k - 2>>}

\* mutant: an extrapolation is stacked from the pass that first computes it
BestTablesEarly(k) == IF k >= 5 THEN 3 ELSE IF k >= 3 THEN 2 ELSE 1

\* how many of Q0, Q1, Q2 _get_best_estimate stacks at pass k
BestTables(k) == IF k >= 6 THEN 3 ELSE IF k >= 4 THEN 2 ELSE 1

\* the entries _get_best_estimate reads at pass k
BestReads(k) == {<<table, i>> : table \in 0..(BestTables(k) - 1), i \in {k, k - 1}}

\* _get_best_estimate(Q0, Q1, Q2, k)
GetBestEstimate(Q0, Q1, Q2, k) ==
    LET tables == <<Q0, Q1, Q2>>
        Qv == [i \in 1..BestTables(k) |-> At(tables[i], k)]
        Qw == [i \in 1..BestTables(k) |-> At(tables[i], k - 1)]
        errors == [i \in 1..Len(Qv) |-> NumAbs(NumSub(Qv[i], Qw[i]))]
        j == ArgMin(errors)
    IN  [Q |-> Qv[j], err |-> errors[j]]

\* mutant: a non-finite estimate does not count as converged
ConvergedErrOnly(Q, err, abseps) == NumLt(err, abseps)

\* converged = (err < abseps) | ~np.isfinite(Q)
Converged(Q, err, abseps) == NumLt(err, abseps) \/ ~IsFinite(Q)

\* mutant: the bump left out
BumpNone(n) == n

\* err = err + 2 * np.finfo(Q).eps
Bump(n) == n + 1

\* a == b
NumEq(a, b) == ~IsNan(a) /\ ~IsNan(b) /\ a = b

\* _order_limits(a, b)
OrderLimits(a, b) ==
    IF NumGt(a, b) THEN [a |-> b, b |-> a, reverse |-> TRUE]
    ELSE [a |-> a, b |-> b, reverse |-> FALSE]

\* the _integrate calls _change_variable_and_integrate makes: their abseps
ImproperSegments(a, b, abseps) ==
    IF IsFinite(a) /\ IsInf(b) THEN <<abseps>>
    ELSE IF IsInf(a) /\ IsFinite(b) THEN <<abseps>>
    ELSE <<NumDiv(abseps, Int2Num(2)), NumDiv(abseps, Int2Num(2))>>

Unbound == [bound |-> FALSE, Q |-> Int2Num(0), err |-> Int2Num(0), converged |-> FALSE]
NoQuadCall == [a |-> Int2Num(0), b |-> Int2Num(0), abseps |-> Int2Num(0),
               max_iter |-> 0, reverse |-> FALSE]
NoQuadResult == [outcome |-> "none", Q |-> Int2Num(0), err |-> Int2Num(0), bump |-> 0]
ZeroAcc == [Q |-> Int2Num(0), err |-> Int2Num(0), bump |-> 0, n |-> 0]

Raised(exc) == [outcome |-> exc, Q |-> Int2Num(0), err |-> Int2Num(0), bump |-> 0]

InitQuad ==
    /\ qc = NoQuadCall
    /\ qpc = "idle"
    /\ qsegs = <<>>
    /\ qk = 0
    /\ qQ0 = <<>>
    /\ qQ1 = <<>>
    /\ qQ2 = <<>>
    /\ qbest = Unbound
    /\ qwarn = {}
    /\ qacc = ZeroAcc
    /\ qres = NoQuadResult
    /\ qevals = 0
    /\ qpasses = 0
    /\ qwritten = {}
    /\ qread = {}

\* quadgr(fun, a, b, abseps, max_iter), lines 1222-1237, up to the first
\* call of _integrate
QuadCall(a, b, abseps, max_iter) ==
    /\ qpc = "idle"
    /\ gpc = "idle"
    /\ rpc = "idle"
    /\ LET o == OrderLimits(a, b)
           improper == IsInf(o.a) \/ IsInf(o.b)
           isreal == ~IsNan(o.a) /\ ~IsNan(o.b)
       IN  /\ qc' = [a |-> a, b |-> b, abseps |-> abseps, max_iter |-> max_iter,
                     reverse |-> o.reverse /\ ~NumEq(a, b)]
           /\ IF NumEq(a, b)
              THEN /\ qpc' = "done"
                   /\ qres' = [outcome |-> "ok", Q |-> NumSub(b, a),
                               err |-> NumSub(b, a), bump |-> 0]
                   /\ qsegs' = <<>>
              ELSE IF improper /\ ~isreal
              THEN /\ qpc' = "done"
                   /\ qres' = Raised("ValueError")
                   /\ qsegs' = <<>>
              ELSE /\ qpc' = "start"
                   /\ qres' = NoQuadResult
                   /\ qsegs' = IF improper THEN ImproperSegments(o.a, o.b, abseps)
                               ELSE <<abseps>>
    /\ UNCHANGED <<qk, qQ0, qQ1, qQ2, qbest, qwarn, qacc, qevals, qpasses,
                   qwritten, qread>>
    /\ UNCHANGED <<tableVars, rootVars, gaussVars, rombergVars>>

\* The end of one _integrate call (lines 1158-1165) and what follows it in
\* the caller: the two _assert_warn, the bump of err, the sum over the
\* calls, the next _integrate call or the return of quadgr (Q negated when
\* the limits were reversed).  qbest' holds the locals Q, err, converged.
QuadFinish ==
    IF ~qbest'.bound
    THEN /\ qpc' = "done"
         /\ qres' = Raised("UnboundLocalError")
         /\ UNCHANGED <<qwarn, qacc, qsegs>>
    ELSE /\ qwarn' = qwarn \cup (IF ~qbest'.converged THEN {"noconv"} ELSE {})
                           \cup (IF ~IsFinite(qbest'.Q) THEN {"nonfinite"} ELSE {})
         /\ qacc' = [Q |-> NumAdd(qacc.Q, qbest'.Q),
                     err |-> NumAdd(qacc.err, qbest'.err),
                     bump |-> Bump(qacc.bump), n |-> qacc.n + 1]
         /\ qsegs' = Tail(qsegs)
         /\ IF Len(qsegs) > 1
            THEN /\ qpc' = "start"
                 /\ qres' = qres
            ELSE /\ qpc' = "done"
                 /\ qres' = [outcome |-> "ok",
                             Q |-> IF qc.reverse THEN NumNeg(qacc'.Q) ELSE qacc'.Q,
                             err |-> qacc'.err, bump |-> qacc'.bump]

\* _integrate up to its loop: the dtype probe (two calls of fun), the
\* arrays, the 12-point rule on the whole interval (v); with max_iter = 1
\* the loop body never runs.
QuadStart(v) ==
    /\ qpc = "start"
    /\ qevals' = qevals + (IF qc.max_iter = 0 THEN 2 ELSE 3)
    /\ qk' = 0
    /\ qbest' = Unbound
    /\ IF qc.max_iter = 0
       THEN /\ qpc' = "done"
            /\ qres' = Raised("IndexError")
            /\ UNCHANGED <<qQ0, qQ1, qQ2, qpasses, qwarn, qacc, qsegs,
                           qwritten, qread>>
       ELSE /\ qQ0' = [i \in 1..qc.max_iter |-> IF i = 1 THEN v ELSE Int2Num(0)]
            /\ qQ1' = [i \in 1..qc.max_iter |-> Int2Num(0)]
            /\ qQ2' = [i \in 1..qc.max_iter |-> Int2Num(0)]
            /\ qwritten' = {<<0, 0>>}
            /\ qread' = {}
            /\ qpasses' = 1
            /\ IF qc.max_iter = 1
               THEN QuadFinish
               ELSE /\ qpc' = "loop"
                    /\ UNCHANGED <<qres, qwarn, qacc, qsegs>>
    /\ UNCHANGED qc
    /\ UNCHANGED <<tableVars, rootVars, gaussVars, rombergVars>>

\* One bisection pass, lines 1133-1156 (v is the new panel sum Q0[k]), and
\* the end of _integrate when the loop is left.
QuadPass(v) ==
    /\ qpc = "loop"
    /\ qk' = qk + 1
    /\ qQ0' = [qQ0 EXCEPT ![qk' + 1] = v]
    /\ qQ1' = IF qk' >= 3 THEN [qQ1 EXCEPT ![qk' + 1] = Richardson(qQ0', qk')] ELSE qQ1
    /\ qQ2' = IF qk' >= 5 THEN [qQ2 EXCEPT ![qk' + 1] = Richardson(qQ1', qk')] ELSE qQ2
    /\ qwritten' = qwritten \cup {<<0, qk'>>}
                            \cup (IF qk' >= 3 THEN {<<1, qk'>>} ELSE {})
                            \cup (IF qk' >= 5 THEN {<<2, qk'>>} ELSE {})
    /\ qread' = qread \cup (IF qk' >= 3 THEN RichardsonReads(0, qk') ELSE {})
                      \cup (IF qk' >= 5 THEN RichardsonReads(1, qk') ELSE {})
                      \cup BestReads(qk')
    /\ \E e \in {GetBestEstimate(qQ0', qQ1', qQ2', qk')} :
          qbest' = [bound |-> TRUE, Q |-> e.Q, err |-> e.err,
                    converged |-> Converged(e.Q, e.err, Head(qsegs))]
    /\ qevals' = qevals + 1
    /\ qpasses' = qpasses + 1
    /\ IF qbest'.converged \/ qk' + 1 >= qc.max_iter
       THEN QuadFinish
       ELSE /\ qpc' = "loop"
            /\ UNCHANGED <<qres, qwarn, qacc, qsegs>>
    /\ UNCHANGED qc
    /\ UNCHANGED <<tableVars, rootVars, gaussVars, rombergVars>>

QuadNext ==
    \/ \E lim \in QuadLimits, abseps \in QuadAbsEps, max_iter \in 0..MaxQIter :
          /\ (IsInf(lim[1]) /\ IsInf(lim[2])) => max_iter <= MaxQIter2
          /\ QuadCall(lim[1], lim[2], abseps, max_iter)
    \/ \E v \in QuadVals : QuadStart(v)
    \/ \E v \in QuadVals : QuadPass(v)

\* the cap on max_iter for the widely spread panel sums
MaxQIterWide == 5

\* finite limits in both orders, with panel sums spread widely enough for an
\* extrapolated value to lie nearer to 0 than two raw sums lie to each other
QuadFiniteLimits == {<<Int2Num(0), Int2Num(1)>>, <<Int2Num(1), Int2Num(0)>>}
QuadFiniteAbsEps == {Int2Num(0), Fin(1, 2)}
QuadWideVals == {Int2Num(-8), Int2Num(-3), Int2Num(-1), Int2Num(0)}

\* a run of panel sums on which the second extrapolation settles first
QuadSeries == <<Int2Num(2), Int2Num(-8), Int2Num(1), Int2Num(3), Int2Num(-1),
                Int2Num(-6), Int2Num(-11)>>

\* the sums a call can see at pass k: the run above when max_iter is its
\* length, else any of the spread values
PanelSums(k) ==
    IF qc.max_iter = Len(QuadSeries)
    THEN {QuadSeries[j] : j \in {k + 1} \cap DOMAIN QuadSeries}
    ELSE QuadWideVals

QuadFiniteNext ==
    \/ \E lim \in QuadFiniteLimits, abseps \in QuadFiniteAbsEps,
          max_iter \in (0..MaxQIterWide) \cup {Len(QuadSeries)} :
            QuadCall(lim[1], lim[2], abseps, max_iter)
    \/ \E v \in PanelSums(0) : QuadStart(v)
    \/ \E v \in PanelSums(qk + 1) : QuadPass(v)

(***************************************************************************)
(* C12: a lookup never returns a rule that was computed for other values   *)
(* of (weight-function id, n, alpha, beta) than its own: the pair it       *)
(* returns is the pair qrule gives for its own four values.                *)
(***************************************************************************)
C12_RuleOfOwnKey ==
    (lk.outcome = "ok") =>
        lk.ret = QruleResult(lk.key[1], lk.key[2], lk.key[3], lk.key[4])

\* what the code keeps: the pair returned is the one qrule gave for the
\* first key looked up under the same name, i.e. a key that agrees in wfun
\* and gn, and in alpha and beta up to six significant digits
C12_RuleOfSameName ==
    (lk.outcome = "ok") =>
        \E key \in TableKeys :
            /\ CacheName(key[1], key[2], key[3], key[4])
                   = CacheName(lk.key[1], lk.key[2], lk.key[3], lk.key[4])
            /\ lk.ret = QruleResult(key[1], key[2], key[3], key[4])

\* an entry that is present but not a complete (nodes, weights) pair
HalfWritten(len) == len >= 0 /\ len # 2

Succeeded(t) == tout[t].outcome = "ok"

(***************************************************************************)
(* C20 as stated, the serialized half: when no lookup starts while another *)
(* is in progress, a successful lookup neither found its key's entry       *)
(* present and incomplete (empty, or of 4 elements) nor leaves it so.      *)
(* The unserialized half is the reachability of C20_ExtendedTwice and      *)
(* C20_ObservedEmpty below.                                                *)
(***************************************************************************)
C20_SerializedSeeWholeEntries ==
    ~overlap =>
        \A t \in Threads :
            Succeeded(t) =>
                /\ ~HalfWritten(tseen[t])
                /\ ~HalfWritten(Len(PW[NameOf(tkey[t])]))

\* what does hold of serialized lookups: a successful one leaves a complete
\* entry, and found an incomplete one only when it was empty and a key of
\* the same name is one qrule refuses
C20_SerializedSeeEmptyOnlyAfterRefusal ==
    ~overlap =>
        \A t \in Threads :
            Succeeded(t) =>
                /\ ~HalfWritten(Len(PW[NameOf(tkey[t])]))
                /\ HalfWritten(tseen[t]) =>
                      /\ tseen[t] = 0
                      /\ \E key \in ThreadKeys :
                            /\ NameOf(key) = NameOf(tkey[t])
                            /\ QruleRaises(key[1], key[2], key[3], key[4])

\* two overlapping first lookups of one key both extended the entry: it is
\* left with 4 elements and the unpacking raised in a thread
C20_ExtendedTwice ==
    /\ overlap
    /\ \E t \in Threads :
          /\ tpc[t] = "idle"
          /\ tkey[t] # <<>>
          /\ ~QruleRaises(tkey[t][1], tkey[t][2], tkey[t][3], tkey[t][4])
          /\ tout[t].outcome = "ValueError"
          /\ \A u \in Threads : tkey[u] = tkey[t]
          /\ Len(PW[NameOf(tkey[t])]) = 4

\* of two overlapping first lookups of one key, one found the entry the
\* other had just created, still empty, and went on to succeed
C20_ObservedEmpty ==
    /\ overlap
    /\ nLookups = 2
    /\ \E t \in Threads :
          /\ Succeeded(t)
          /\ tseen[t] = 0
          /\ \A u \in Threads : tkey[u] = tkey[t]

(***************************************************************************)
(* C22: a lookup that fails because qrule refuses the parameters leaves    *)
(* _POINTS_AND_WEIGHTS exactly as it was before the call, and every entry  *)
(* present between lookups is a complete (nodes, weights) pair.            *)
(***************************************************************************)
C22_FailedLookupLeavesCacheAlone ==
    /\ [](\A name \in DOMAIN PW : Len(PW[name]) = 2)
    /\ [][(nLookups' = nLookups + 1 /\ lk'.outcome = "ValueError") => PW' = PW]_vars

\* what the code does: the failed first lookup of a name leaves an empty
\* list under it, and nothing else changes
C22_FailedLookupLeavesEmptyEntry ==
    /\ [](\A name \in DOMAIN PW : Len(PW[name]) \in {0, 2})
    /\ [][(nLookups' = nLookups + 1 /\ lk'.outcome = "ValueError") =>
            LET name == NameOf(lk'.key)
            IN  /\ name \in DOMAIN PW'
                /\ PW'[name] = <<>>
                /\ \A other \in DOMAIN PW : PW'[other] = PW[other]
                /\ DOMAIN PW' = DOMAIN PW \cup {name}]_vars

\* a lookup has just failed and its name is in the cache with an empty list
C22_EmptyEntryLeft ==
    /\ lk.outcome = "ValueError"
    /\ NameOf(lk.key) \in DOMAIN PW
    /\ PW[NameOf(lk.key)] = <<>>

(***************************************************************************)
(* C2: gaussq performs at most max_iter passes and then returns: while it  *)
(* is in the loop a pass is still allowed and the active set k is not      *)
(* empty; it returns before the cap only with k empty, and then without a  *)
(* warning; when it returns with k not empty the cap was reached and the   *)
(* warning was emitted; ValueError comes only from an invalid wfun or      *)
(* shape parameter, never from non-convergence.                            *)
(***************************************************************************)
C2_GaussqStopsAtCap ==
    /\ gi <= gc.max_iter
    /\ gpc = "loop" => (gi < gc.max_iter /\ (Tested(gi - 1) => gk # {}))
    /\ (gpc = "done" /\ gout = "ok") =>
          /\ gi < gc.max_iter => gk = {}
          /\ gk = {} => gwarn = NoWarning
          /\ gk # {} => (gi = gc.max_iter /\ gwarn # NoWarning)
    /\ gpc = "done" => gout \in {"ok", "ValueError"}
    /\ gout = "ValueError" =>
          \/ ~(1 <= gc.wfun /\ gc.wfun <= 9)
          \/ gc.alpha <= -AlphaUnit
          \/ gc.beta <= -AlphaUnit

\* the cap is reached after the convergence test has run, with a problem
\* still active: the warning is emitted and the pair returned
C2_Witness ==
    /\ gpc = "done"
    /\ gout = "ok"
    /\ gc.max_iter >= 3
    /\ gi = gc.max_iter
    /\ gk # {}
    /\ gwarn # NoWarning

(***************************************************************************)
(* C3: when gaussq returns without the did-not-converge warning, no        *)
(* problem's reported error exceeds max(relTol*|value|, absTol) for the    *)
(* value returned for it (tolerances are non-negative).                    *)
(***************************************************************************)
C3_ErrorsWithinTolerance ==
    (gpc = "done" /\ gout = "ok" /\ gwarn = NoWarning) =>
        \A j \in 1..gc.nk :
            ~NumGt(gabserr[j],
                   NpMaximum(NumMul(gc.releps, NumAbs(gval[j])), gc.abseps))

\* two problems, returned without warning, that left the loop on different
\* passes: one of them kept its error from an earlier pass
C3_Witness ==
    /\ gpc = "done"
    /\ gout = "ok"
    /\ gwarn = NoWarning
    /\ gc.nk = 2
    /\ gi = 4
    /\ glastEval # 1..gc.nk
    /\ \E j \in 1..gc.nk : gabserr[j] # Int2Num(0)

(***************************************************************************)
(* C7: with a weight-function id outside 1..9, gaussq ends in ValueError   *)
(* before its loop: no pass, no evaluation of the integrand, no lookup in  *)
(* the rule cache and the cache unchanged; and qrule ends in ValueError    *)
(* with no root function entered and no Newton iteration.                  *)
(***************************************************************************)
C7_UnknownWfunRaisesFirst ==
    /\ (gpc # "idle" /\ ~(1 <= gc.wfun /\ gc.wfun <= 9)) =>
          /\ gpc = "done"
          /\ gout = "ValueError"
          /\ gi = 0
          /\ gevals = 0
          /\ glook = 0
          /\ PW = <<>>
    /\ (rc.fn = "qrule" /\ ~(1 <= rc.wfun /\ rc.wfun <= 9)) =>
          /\ rpc = "done"
          /\ rres.outcome = "ValueError"
          /\ rsolver.solver = "none"
          /\ rits = 0
          /\ ~reig

\* gaussq(..., wfun=10) has raised
C7_Witness ==
    /\ gpc = "done"
    /\ gc.wfun = 10
    /\ gout = "ValueError"
    /\ gevals = 0

(***************************************************************************)
(* C11 as stated: whenever gaussq emits its warning with m >= 1 problems   *)
(* still active, the text of the warning carries the number m.             *)
(***************************************************************************)
C11_WarningNamesCount ==
    (gpc = "done" /\ gwarn # NoWarning /\ gk # {}) =>
        gwarn.n = Cardinality(gk)

(***************************************************************************)
(* C11 amended: when gaussq runs out of passes with m >= 1 of its nk       *)
(* problems still active it emits exactly one warning, whose text carries  *)
(* the number m only when 1 < m < nk; for m = nk > 1 it says "All          *)
(* integrals", and for m = 1 "Integral", without a number.                 *)
(***************************************************************************)
C11_WarningTextByCount ==
    (gpc = "done" /\ gout = "ok" /\ gk # {}) =>
        LET m == Cardinality(gk)
        IN  /\ gwarn # NoWarning
            /\ (1 < m /\ m < gc.nk) =>
                   /\ gwarn.kind = "%d integrals did not converge--singularities likely!"
                   /\ gwarn.n = m
            /\ (1 < m /\ m = gc.nk) =>
                   /\ gwarn.kind = "All integrals did not converge--singularities likely!"
                   /\ gwarn.n = 0
            /\ m = 1 =>
                   /\ gwarn.kind = "Integral did not converge--singularity likely!"
                   /\ gwarn.n = 0

\* two of three problems are left when the passes run out
C11_Witness ==
    /\ gpc = "done"
    /\ gout = "ok"
    /\ gc.nk = 3
    /\ Cardinality(gk) = 2
    /\ gwarn.n = 2

\* problem j is over its tolerance with the error and value it has now
OverTolerance(j) ==
    NumGt(gabserr[j], Tolerance(gc.releps, gc.abseps, gval[j]))

(***************************************************************************)
(* C13: the convergence test of gaussq runs from the second pass on: once  *)
(* two passes are done, the problems in the active set are exactly those   *)
(* whose error exceeds max(relTol*|estimate|, absTol).                     *)
(***************************************************************************)
C13_TestedFromSecondPass ==
    (gpc \in {"loop", "done"} /\ gout # "ValueError" /\ gi >= 2) =>
        gk = {j \in 1..gc.nk : OverTolerance(j)}

\* what the code does: "if 1 < i" with i counted from 0 tests from the
\* third pass on, so the first two passes keep every problem active with
\* its error still 0 and the earliest return is after three passes
C13_TestedFromThirdPass ==
    (gpc \in {"loop", "done"} /\ gout # "ValueError") =>
        /\ gi >= 3 => gk = {j \in 1..gc.nk : OverTolerance(j)}
        /\ gi <= 2 =>
              /\ gk = 1..gc.nk
              /\ \A j \in 1..gc.nk : gabserr[j] = Int2Num(0)
        /\ (gpc = "done" /\ gi < gc.max_iter) => gi >= 3

\* a pass of the refinement loop has just been completed
PassDone == gpc = "loop" /\ gi' = gi + 1

(***************************************************************************)
(* C14: on every pass of gaussq, the first included, a problem whose       *)
(* estimate comes out NaN gets back the estimate it had before that pass;  *)
(* and no value held or returned by gaussq is NaN.                         *)
(***************************************************************************)
C14_NanReplacedByPreceding ==
    /\ [](\A j \in DOMAIN gval : ~IsNan(gval[j]))
    /\ [][PassDone => \A j \in gnan' : gval'[j] = gval[j]]_vars

\* what the code keeps: from the second pass on the NaN is replaced by the
\* estimate of the pass before; on the first pass it is replaced by the 1
\* that val_old was initialised with; no value is ever NaN
C14_NanReplacedByValOld ==
    /\ [](\A j \in DOMAIN gval : ~IsNan(gval[j]))
    /\ [][PassDone =>
            \A j \in gnan' :
                /\ gval'[j] = gval_old[j]
                /\ gi >= 1 => gval'[j] = gval[j]
                /\ gi = 0 => gval'[j] = Int2Num(1)]_vars

\* A pass with index >= 2 in which estimates came out NaN: each such problem
\* keeps the estimate it had, gets the error |old - old| (0 when
\* `alwaysZero`), and is outside the active set afterwards; a problem
\* outside the active set stays outside with its estimate; and a warning of
\* that pass is the one for the problems still active, none when none is.
NanPass(alwaysZero) ==
    (PassDone /\ gi >= 2) =>
        /\ \A j \in gnan' :
               /\ j \in gk
               /\ gval'[j] = gval[j]
               /\ gabserr'[j] = IF alwaysZero THEN Int2Num(0)
                                 ELSE NumAbs(NumSub(gval[j], gval[j]))
               /\ j \notin gk'
        /\ \A j \in (1..gc.nk) \ gk : j \notin gk' /\ gval'[j] = gval[j]
        /\ gwarn' # NoWarning => (gk' # {} /\ gwarn' = Warn(gk', gc.nk))
        /\ (gpc' = "done" /\ gk' # {}) => gwarn' # NoWarning

(***************************************************************************)
(* C21 as stated: a problem whose estimate is NaN on a pass with index     *)
(* >= 2 gets an error estimate of exactly 0 on that pass and leaves the    *)
(* active set; it keeps its previous estimate and is not among the         *)
(* problems the did-not-converge warning counts.                           *)
(***************************************************************************)
C21_NanGetsZeroError == [][NanPass(TRUE)]_vars

(***************************************************************************)
(* C21 amended: the error estimate of such a problem is |old - old| of its *)
(* previous estimate: 0 when that is finite, NaN when it is infinite; in   *)
(* both cases the problem leaves the active set, keeps its previous        *)
(* estimate and is not counted by the warning.                             *)
(***************************************************************************)
C21_NanGetsErrorOfOldMinusOld == [][NanPass(FALSE)]_vars

\* a NaN came on the third pass or later for a problem whose estimate was
\* infinite: its error is NaN and it has left the active set
C21_Witness ==
    /\ gi >= 3
    /\ gout # "ValueError"
    /\ \E j \in gnan :
          /\ j \in glastEval
          /\ IsInf(gval[j])
          /\ IsNan(gabserr[j])
          /\ j \notin gk

\* the same with a finite previous estimate: the error is 0
C21_ZeroErrorReached ==
    /\ gi >= 3
    /\ gout # "ValueError"
    /\ \E j \in gnan :
          /\ j \in glastEval
          /\ IsFinite(gval[j])
          /\ gabserr[j] = Int2Num(0)
          /\ j \notin gk

(***************************************************************************)
(* C15: every pass of gaussq evaluates the integrand for the problems of   *)
(* the active set only; the active set never grows, and a problem outside  *)
(* it keeps its value and its error estimate through every later pass.     *)
(***************************************************************************)
C15_InactiveProblemsUntouched ==
    [][PassDone =>
          /\ glastEval' = gk
          /\ gk' \subseteq gk
          /\ \A j \in (1..gc.nk) \ gk :
                 /\ gval'[j] = gval[j]
                 /\ gabserr'[j] = gabserr[j]]_vars

\* a pass was made for one problem after the other had left the active set
\* with an error that is not the initial 0
C15_Witness ==
    /\ gpc \in {"loop", "done"}
    /\ gout # "ValueError"
    /\ gc.nk = 2
    /\ gi >= 4
    /\ Cardinality(glastEval) = 1
    /\ \E j \in (1..gc.nk) \ glastEval : gabserr[j] # Int2Num(0)

FiniteInterval ==
    /\ qpc # "idle"
    /\ IsFinite(qc.a)
    /\ IsFinite(qc.b)
    /\ ~NumEq(qc.a, qc.b)

(***************************************************************************)
(* C4: quadgr with max_iter >= 1 on a finite interval with a # b makes at  *)
(* most max_iter passes and returns a (value, error) pair, never raising;  *)
(* when it has made max_iter passes and the last error is not below        *)
(* abseps, the "did not converge" warning was emitted.                     *)
(***************************************************************************)
C4_QuadgrReturnsWithinCap ==
    (FiniteInterval /\ qc.max_iter >= 1) =>
        /\ qpasses <= qc.max_iter
        /\ qpc = "done" =>
              /\ qres.outcome = "ok"
              /\ (qpasses = qc.max_iter /\ ~NumLt(qbest.err, qc.abseps)) =>
                     "noconv" \in qwarn

\* what the code does keep for max_iter >= 2: the cap, the return, and the
\* warning whenever the loop ended on a finite estimate with err >= abseps
C4_HoldsFromTwoPasses ==
    (FiniteInterval /\ qc.max_iter >= 2) =>
        /\ qpasses <= qc.max_iter
        /\ qpc = "done" =>
              /\ qres.outcome = "ok"
              /\ (IsFinite(qbest.Q) /\ ~NumLt(qbest.err, qc.abseps)) =>
                     (qpasses = qc.max_iter /\ "noconv" \in qwarn)

\* The best pair of pass qk is a pair (Qs[k], |Qs[k] - Qs[k-1]|) of one of
\* the sequences taken into account: Q0 always, Q1 when k >= from1, Q2 when
\* k >= from2; its difference is the smallest of theirs, a NaN difference
\* counting as smaller than any number (numpy's argmin).
BestIsMinimum(from1, from2) ==
    (qbest.bound /\ qk >= 1) =>
        LET k == qk
            seqs == <<qQ0, qQ1, qQ2>>
            avail == {1} \cup (IF k >= from1 THEN {2} ELSE {})
                         \cup (IF k >= from2 THEN {3} ELSE {})
            diff(q) == NumAbs(NumSub(At(seqs[q], k), At(seqs[q], k - 1)))
        IN  \E q \in avail :
                /\ qbest.Q = At(seqs[q], k)
                /\ qbest.err = diff(q)
                /\ IF \E t \in avail : IsNan(diff(t))
                   THEN IsNan(diff(q))
                   ELSE \A t \in avail : ~NumLt(diff(t), diff(q))

(***************************************************************************)
(* C17 as stated: the best pair of pass k has the smallest absolute        *)
(* difference among the raw panel sums, the first Richardson extrapolation *)
(* from pass index 3 on and the second from pass index 5 on.               *)
(***************************************************************************)
C17_BestAmongComputed == BestIsMinimum(3, 5)

(***************************************************************************)
(* C17 amended: the best pair of pass k has the smallest absolute          *)
(* difference between the values of passes k and k - 1 among the raw panel *)
(* sums (every pass), the first Richardson extrapolation from pass index 4 *)
(* on and the second from pass index 6 on, i.e. each extrapolation from    *)
(* the pass after the one that computed its first value; a NaN difference  *)
(* is taken before any other.                                              *)
(***************************************************************************)
C17_BestAmongPairs == BestIsMinimum(4, 6)

\* the pair of the second extrapolation was taken at pass 6, and differs
\* from the other two; below, the same for the first extrapolation
C17_Witness ==
    /\ qbest.bound
    /\ qk >= 6
    /\ qbest.Q = At(qQ2, qk)
    /\ qbest.Q # At(qQ0, qk)
    /\ qbest.Q # At(qQ1, qk)
    /\ IsFinite(qbest.Q)

C17_FirstExtrapolationTaken ==
    /\ qbest.bound
    /\ qk >= 4
    /\ qbest.Q = At(qQ1, qk)
    /\ qbest.Q # At(qQ0, qk)
    /\ IsFinite(qbest.Q)

\* a finite-interval integration that made a bisection pass has returned
IntegrationEnded ==
    /\ qpc = "done"
    /\ qres.outcome = "ok"
    /\ qbest.bound
    /\ qk >= 1

(***************************************************************************)
(* C18 as stated: at the end of a finite-interval integration of quadgr    *)
(* with at least one bisection pass, "did not converge" was warned exactly *)
(* when the last pass had err >= abseps with a finite estimate, the        *)
(* non-finite warning exactly when the estimate is not finite, and never   *)
(* both.                                                                   *)
(***************************************************************************)
C18_WarnedIffErrAtLeastTol ==
    IntegrationEnded =>
        /\ "noconv" \in qwarn <=>
               /\ IsFinite(qbest.Q)
               /\ ~IsNan(qbest.err)
               /\ ~NumLt(qbest.err, qc.abseps)
        /\ "nonfinite" \in qwarn <=> ~IsFinite(qbest.Q)
        /\ ~({"noconv", "nonfinite"} \subseteq qwarn)

(***************************************************************************)
(* C18 amended: "did not converge" was warned exactly when the last pass   *)
(* had a finite estimate and its test err < abseps failed, which includes  *)
(* an err that is NaN; the non-finite warning exactly when the estimate is *)
(* not finite; never both.                                                 *)
(***************************************************************************)
C18_WarnedIffTestFailed ==
    IntegrationEnded =>
        /\ "noconv" \in qwarn <=>
               (IsFinite(qbest.Q) /\ ~NumLt(qbest.err, qc.abseps))
        /\ "nonfinite" \in qwarn <=> ~IsFinite(qbest.Q)
        /\ ~({"noconv", "nonfinite"} \subseteq qwarn)

\* the passes ran out on a finite estimate whose error is NaN
C18_Witness ==
    /\ IntegrationEnded
    /\ IsFinite(qbest.Q)
    /\ IsNan(qbest.err)
    /\ qwarn = {"noconv"}

(***************************************************************************)
(* C8 as stated: every call of quadgr that returns has had 2*eps added to  *)
(* its error estimate, whatever the limits.                                *)
(***************************************************************************)
C8_ErrorAlwaysBumped ==
    (qpc = "done" /\ qres.outcome = "ok") => qres.bump >= 1

(***************************************************************************)
(* C8 amended: every call of quadgr with a # b that returns has had 2*eps  *)
(* added to its error estimate once per _integrate call it made (once, or  *)
(* twice for (-inf, inf)), so the reported error is not exactly zero; a    *)
(* call with a == b returns the error b - a with nothing added.            *)
(***************************************************************************)
C8_ErrorBumpedUnlessDegenerate ==
    (qpc = "done" /\ qres.outcome = "ok") =>
        IF NumEq(qc.a, qc.b)
        THEN qres.bump = 0 /\ qres.err = NumSub(qc.b, qc.a)
        ELSE /\ qres.bump >= 1
             /\ qres.bump = qacc.n
             /\ qres.bump = (IF IsInf(qc.a) /\ IsInf(qc.b) THEN 2 ELSE 1)

\* a returned estimate whose raw error |Qv - Qw| was 0 and carries the bump
C8_Witness ==
    /\ qpc = "done"
    /\ qres.outcome = "ok"
    /\ ~NumEq(qc.a, qc.b)
    /\ qres.err = Int2Num(0)
    /\ qres.bump = 1

(***************************************************************************)
(* C9: quadgr with a == b returns a pair equivalent to (0, 0) at once,     *)
(* with no evaluation of the integrand and no pass, for every value the    *)
(* equal limits take.                                                      *)
(***************************************************************************)
C9_DegenerateReturnsZero ==
    (qpc # "idle" /\ NumEq(qc.a, qc.b)) =>
        /\ qpc = "done"
        /\ qres.outcome = "ok"
        /\ qres.Q = Int2Num(0)
        /\ qres.err = Int2Num(0)
        /\ qevals = 0
        /\ qpasses = 0

\* the part the code keeps: an immediate return without evaluation for any
\* equal limits, and (0, 0) when they are finite
C9_HoldsForFiniteLimits ==
    (qpc # "idle" /\ NumEq(qc.a, qc.b)) =>
        /\ qpc = "done"
        /\ qres.outcome = "ok"
        /\ qevals = 0
        /\ qpasses = 0
        /\ IsFinite(qc.a) => (qres.Q = Int2Num(0) /\ qres.err = Int2Num(0))

(***************************************************************************)
(* C23: in _integrate, for every max_iter and every pass k, each entry of  *)
(* Q0, Q1 and Q2 that richardson or _get_best_estimate reads was assigned  *)
(* at an earlier pass or earlier in the same pass; an entry still holding  *)
(* the zero it was initialised with is never read.                         *)
(***************************************************************************)
C23_ReadEntriesWereWritten ==
    /\ qread \subseteq qwritten
    /\ \A e \in qwritten : e[1] \in 0..2 /\ e[2] \in 0..qk /\ e[2] < qc.max_iter

\* pass 6 was made: both extrapolations were read two entries back, and the
\* selection read the second extrapolation of passes 5 and 6
C23_Witness ==
    /\ qk = 6
    /\ qbest.bound
    /\ {<<1, 3>>, <<1, 4>>, <<2, 5>>, <<2, 6>>} \subseteq qread
    /\ <<2, 4>> \notin qread

----
(***************************************************************************)
(* romberg.  The step h = b - a is described by its sign class and, when   *)
(* it is positive and finite, by lg = round(log2(h / h_min)); the entries  *)
(* of the extrapolation table rom are kept as (step, level) labels: the    *)
(* entry of level 0 is the trapezoid sum of that step, the entry of level  *)
(* k + 1 the Richardson extrapolation of the entries of level k.  dea3 is  *)
(* imported from wafo.misc: its result is any pair of the sets below.      *)
(***************************************************************************)
TableMax == 30
TableMin == 3

RombergLg == {2, 3, 17, 30, 31}
RombergH ==
    {[kind |-> "pos", lg |-> j] : j \in RombergLg}
        \cup {[kind |-> c, lg |-> 0] : c \in {"neg", "zero", "inf", "nan"}}
RombergRelEps == {Int2Num(0), Int2Num(1)}
RombergAbsEps == {Fin(1, 2)}
Dea3Res == {Int2Num(0), Int2Num(2)}
Dea3AbsErr == {Int2Num(0), Int2Num(1), NaN}

\* np.round(np.log2(h / h_min)), a float
RoundLog2(h) ==
    CASE h.kind = "pos" -> Int2Num(h.lg)
      [] h.kind = "zero" -> Inf(-1)
      [] h.kind = "inf" -> Inf(1)
      [] OTHER -> NaN

\* max(min(x, 30), 3): Python's min and max return one of their arguments,
\* so the result is the float x unless an int literal compared past it
TableLimit(h) ==
    LET x == RoundLog2(h)
        lo == IF NumLt(Int2Num(TableMax), x)
              THEN [val |-> Int2Num(TableMax), isfloat |-> FALSE]
              ELSE [val |-> x, isfloat |-> TRUE]
    IN  IF NumGt(Int2Num(TableMin), lo.val)
        THEN [val |-> Int2Num(TableMin), isfloat |-> FALSE]
        ELSE lo

\* zeros((2, table_limit)) and range(1, table_limit) take integers only
ShapeAccepted(tl) == ~tl.isfloat

\* h *= 0.5
Halve(h) == IF h.kind = "pos" THEN [h EXCEPT !.lg = @ - 1] ELSE h

Entry(step, level) == [step |-> step, level |-> level]
RomZero == Entry(-1, 0)
Unassigned == Entry(-2, 0)

\* rom[two, 0] = 0.5 * rom[one, 0] + un5, then for k in range(i):
\* rom[two, k + 1] = rom[two, k] + (rom[two, k] - rom[one, k]) / (fp[k] - 1)
NewRow(row, i) ==
    [c \in 1..Len(row) |-> IF c - 1 <= i THEN Entry(i, c - 1) ELSE row[c]]

\* mutant: ih4 is taken from column 0, the trapezoid sum
Ih4ColumnZero(i) == 0

\* ih4 = rom[two, i]: the column of the table that ih4 is read from
Ih4Column(i) == i

\* abserr <= max(abseps, releps * abs(res))
RombergConverged(abserr, res, releps, abseps) ==
    LET tol == PyMax(abseps, NumMul(releps, NumAbs(res)))
    IN  ~IsNan(abserr) /\ ~IsNan(tol) /\ ~NumLt(tol, abserr)

NoRombergCall == [h |-> [kind |-> "zero", lg |-> 0],
                  releps |-> Int2Num(0), abseps |-> Int2Num(0)]
NoRombergResult == [outcome |-> "none", res |-> Int2Num(0), abserr |-> Int2Num(0)]
RombergRaised(exc) == [outcome |-> exc, res |-> Int2Num(0), abserr |-> Int2Num(0)]
UnboundRes == [bound |-> FALSE, val |-> Int2Num(0)]
AbsErrOf(entry) == [from |-> "rom", entry |-> entry, val |-> Int2Num(0)]
AbsErrDea3(x) == [from |-> "dea3", entry |-> RomZero, val |-> x]

\* return res, abserr
RombergReturn(res, abserr) ==
    IF res.bound
    THEN [outcome |-> "ok", res |-> res.val, abserr |-> abserr.val]
    ELSE RombergRaised("UnboundLocalError")

InitRomberg ==
    /\ mc = NoRombergCall
    /\ mpc = "idle"
    /\ mh = NoRombergCall.h
    /\ mi = 0
    /\ mtable_limit = [val |-> Int2Num(0), isfloat |-> FALSE]
    /\ mrom = <<>>
    /\ mtwo = 1
    /\ mone = 0
    /\ mipower = 1
    /\ mih = [ih1 |-> Unassigned, ih2 |-> RomZero, ih4 |-> RomZero]
    /\ mres = UnboundRes
    /\ mabserr = AbsErrOf(RomZero)
    /\ mout = NoRombergResult
    /\ mhalvings = 0
    /\ mdea3 = 0

\* romberg(fun, a, b, releps, abseps) up to the loop
RombergCall(h, releps, abseps) ==
    /\ mpc = "idle"
    /\ rpc = "idle"
    /\ gpc = "idle"
    /\ qpc = "idle"
    /\ mc' = [h |-> h, releps |-> releps, abseps |-> abseps]
    /\ mh' = h
    /\ mtable_limit' = TableLimit(h)
    /\ IF ~ShapeAccepted(mtable_limit')
       THEN /\ mpc' = "done"
            /\ mout' = RombergRaised("TypeError")
            /\ UNCHANGED <<mi, mrom, mtwo, mone, mipower, mih, mabserr>>
       ELSE LET n == mtable_limit'.val.n
                zeros == [c \in 1..n |-> RomZero]
            IN  /\ mpc' = "loop"
                /\ mrom' = <<[zeros EXCEPT ![1] = Entry(0, 0)], zeros>>
                /\ mipower' = 1
                /\ mih' = [ih1 |-> Unassigned, ih2 |-> RomZero,
                           ih4 |-> Entry(0, 0)]
                /\ mabserr' = AbsErrOf(Entry(0, 0))
                /\ mtwo' = 1
                /\ mone' = 0
                /\ mi' = 1
                /\ mout' = NoRombergResult
    /\ UNCHANGED <<mres, mhalvings, mdea3>>
    /\ UNCHANGED <<tableVars, rootVars, gaussVars, quadVars>>

\* one iteration of "for i in range(1, table_limit)", and the return that
\* follows the break or the last iteration; (res, abserr) is what dea3 gives
RombergStep(res, abserr) ==
    /\ mpc = "loop"
    /\ mh' = Halve(mh)
    /\ mhalvings' = mhalvings + 1
    /\ mrom' = [mrom EXCEPT ![mtwo + 1] = NewRow(@, mi)]
    /\ mih' = [ih1 |-> mih.ih2, ih2 |-> mih.ih4,
               ih4 |-> mrom'[mtwo + 1][Ih4Column(mi) + 1]]
    /\ IF 2 <= mi
       THEN /\ mdea3' = mdea3 + 1
            /\ mres' = [bound |-> TRUE, val |-> res]
            /\ mabserr' = AbsErrDea3(abserr)
       ELSE UNCHANGED <<mdea3, mres, mabserr>>
    /\ IF 2 <= mi /\ RombergConverged(abserr, res, mc.releps, mc.abseps)
       THEN /\ mpc' = "done"
            /\ mout' = RombergReturn(mres', mabserr')
            /\ UNCHANGED <<mtwo, mone, mipower, mi>>
       ELSE /\ mtwo' = mone
            /\ mone' = (mone + 1) % 2
            /\ mipower' = mipower * 2
            /\ mi' = mi + 1
            /\ IF NumLt(Int2Num(mi'), mtable_limit.val)
               THEN /\ mpc' = "loop"
                    /\ UNCHANGED mout
               ELSE /\ mpc' = "done"
                    /\ mout' = RombergReturn(mres', mabserr')
    /\ UNCHANGED <<mc, mtable_limit>>
    /\ UNCHANGED <<tableVars, rootVars, gaussVars, quadVars>>

RombergNext ==
    \/ \E h \in RombergH, releps \in RombergRelEps, abseps \in RombergAbsEps :
           RombergCall(h, releps, abseps)
    \/ \E res \in Dea3Res, abserr \in Dea3AbsErr : RombergStep(res, abserr)

(***************************************************************************)
(* C10: for every input romberg halves the step at most 30 times and       *)
(* returns the last (res, abserr) pair without raising; dea3 has been      *)
(* applied at least once before any return, so the pair is defined.        *)
(***************************************************************************)
C10_RombergAlwaysReturns ==
    (mpc # "idle") =>
        /\ mhalvings <= TableMax
        /\ mpc = "done" =>
              /\ mout.outcome = "ok"
              /\ mdea3 >= 1
              /\ mres.bound
              /\ mout.res = mres.val
              /\ mout.abserr = mabserr.val

\* what the code keeps: when table_limit came out as one of the int
\* literals (h above 2**30.5 * h_min, or below 2**2.5 * h_min but not
\* negative) the loop is entered, dea3 runs at i = 2 and the pair of its
\* last call is returned after at most table_limit - 1 halvings
C10_HoldsForIntegerTableLimit ==
    (mpc # "idle" /\ ShapeAccepted(mtable_limit)) =>
        /\ mhalvings <= mtable_limit.val.n - 1
        /\ mtable_limit.val.n \in {TableMin, TableMax}
        /\ mpc = "done" =>
              /\ mout.outcome = "ok"
              /\ mdea3 >= 1
              /\ mres.bound
              /\ mout.res = mres.val
              /\ mabserr.from = "dea3"
              /\ mout.abserr = mabserr.val

\* every other call raises before the first evaluation of the loop
C10_FloatTableLimitRaises ==
    (mpc # "idle" /\ ~ShapeAccepted(mtable_limit)) =>
        /\ mpc = "done"
        /\ mout.outcome = "TypeError"
        /\ mhalvings = 0
        /\ mc.h.kind \in {"neg", "nan"} \/ mc.h.lg \in TableMin..TableMax

(***************************************************************************)
(* C16 as stated: at every step i >= 2 of romberg the three values given   *)
(* to dea3 are the trapezoid sums (column 0 of the table) of the steps     *)
(* i - 2, i - 1 and i.                                                     *)
(***************************************************************************)
C16_Dea3OnTrapezoidSums ==
    (mpc \in {"loop", "done"} /\ mdea3 >= 1) =>
        LET i == mhalvings
        IN  /\ mih.ih1 = Entry(i - 2, 0)
            /\ mih.ih2 = Entry(i - 1, 0)
            /\ mih.ih4 = Entry(i, 0)

(***************************************************************************)
(* C16 amended: at every step i >= 2 of romberg the three values given to  *)
(* dea3 are the diagonal entries of the extrapolation table of the steps   *)
(* i - 2, i - 1 and i, i.e. for step j the entry rom[two, j] of the        *)
(* highest extrapolation level j; only the entry of step 0 is a trapezoid  *)
(* sum.  dea3 is called once per step from i = 2 on.                       *)
(***************************************************************************)
C16_Dea3OnDiagonal ==
    (mpc \in {"loop", "done"} /\ mdea3 >= 1) =>
        LET i == mhalvings
        IN  /\ i >= 2
            /\ mdea3 = i - 1
            /\ mih.ih1 = Entry(i - 2, i - 2)
            /\ mih.ih2 = Entry(i - 1, i - 1)
            /\ mih.ih4 = Entry(i, i)
            /\ \E row \in 1..2 : mrom[row][i + 1] = mih.ih4

\* dea3 has been called at step 3 with three extrapolated entries
C16_Witness ==
    /\ mpc \in {"loop", "done"}
    /\ mhalvings = 3
    /\ mdea3 = 2
    /\ mih.ih1.level = 1
    /\ mih.ih4.level = 3

----
(***************************************************************************)
(* The specifications: one per entry point of the module.                  *)
(***************************************************************************)
Init == InitTable /\ InitRoots /\ InitGauss /\ InitQuad /\ InitRomberg

SpecRoots == Init /\ [][RootsNext]_vars

SpecTableThreads == Init /\ [][ThreadNext]_vars
SpecTable == Init /\ [][TableNext]_vars

SpecGaussq == Init /\ [][GaussNext \/ RootsNext]_vars

SpecGaussqBatch == Init /\ [][GaussBatchNext]_vars

SpecQuadgr == Init /\ [][QuadNext]_vars

SpecQuadgrFinite == Init /\ [][QuadFiniteNext]_vars

SpecRomberg == Init /\ [][RombergNext]_vars

====
